---- MODULE Spec2Model ----
(***************************************************************************)
(* Model of VoiceProxyHandler (backend/src/services/websocket_handler.py): *)
(* one client connection handled by handle_connection, the upstream        *)
(* connection it opens, and the two forwarding tasks.                      *)
(***************************************************************************)
EXTENDS Integers, Sequences, FiniteSets, TLC

\* ---------------------------------------------------------------- bounds
MaxClientFrames == 2
MaxUpstreamFrames == 2
\* upstream frames when _forward_azure_to_client is looked at alone
MaxDedupFrames == 3

\* Python's None
None == "None"

\* ------------------------------------------------------- client frames
\* A client frame is described by what json.loads and the dict lookups of
\* the code see in it:
\*   json     "empty"   the empty text (falsy)
\*            "binary"  bytes that are not UTF-8 (json.loads: UnicodeDecodeError)
\*            "invalid" text that is not JSON (json.loads: JSONDecodeError)
\*            "array"   valid JSON that is not an object
\*            "object"  a JSON object
\*   type     value of the "type" key: "session.update", "other", "absent"
\*   session  value of the "session" key: "absent", "num", "dict"
\*   agent_id value of session["agent_id"]: "absent", "" (empty), "X", "Y"
Frame(j, t, s, a) == [json |-> j, type |-> t, session |-> s, agent_id |-> a]

\* every shape the code tells apart
AllClientFrameKinds ==
    { Frame("empty", "absent", "absent", "absent"),
      Frame("binary", "absent", "absent", "absent"),
      Frame("invalid", "absent", "absent", "absent"),
      Frame("array", "absent", "absent", "absent"),
      Frame("object", "absent", "absent", "absent"),
      Frame("object", "other", "absent", "absent"),
      Frame("object", "other", "dict", "X"),
      Frame("object", "session.update", "absent", "absent"),
      Frame("object", "session.update", "num", "absent"),
      Frame("object", "session.update", "dict", "absent"),
      Frame("object", "session.update", "dict", ""),
      Frame("object", "session.update", "dict", "X"),
      Frame("object", "session.update", "dict", "Y") }

\* the frames a client sends in the connection life cycle: an identification
\* message, an ordinary message, and one that ends the forwarding loop
ClientFrameKinds ==
    { Frame("object", "session.update", "dict", "X"),
      Frame("object", "other", "absent", "absent"),
      Frame("array", "absent", "absent", "absent") }

\* Result of a Python expression: a value, or the exception it raised.
Ret(v) == [exc |-> "none", val |-> v]
Raise(e) == [exc |-> e, val |-> None]

\* json.loads(message)
JsonLoads(m) ==
    CASE m.json = "binary" -> Raise("UnicodeDecodeError")
      [] m.json \in {"empty", "invalid"} -> Raise("JSONDecodeError")
      [] OTHER -> Ret(m)

\* Python truthiness of an extracted agent_id
Truthy(a) == a \notin {"absent", "", None}

\* identification that forgets to look at the message type
MutIdentifyBodyNoTypeCheck(m) ==
    IF m.json = "empty" THEN Ret(None)
    ELSE LET p == JsonLoads(m) IN
         IF p.exc = "JSONDecodeError" THEN Ret(None)
         ELSE IF p.exc # "none" THEN p
         ELSE IF m.json # "object" THEN Raise("AttributeError")
         ELSE IF m.session = "num" THEN Raise("AttributeError")
         ELSE IF m.session = "dict" /\ Truthy(m.agent_id) THEN Ret(m.agent_id)
         ELSE Ret(None)

\* Body of the try block of _get_agent_id_from_client once first_message is
\* there: the value it returns, None when it falls through to the final
\* return, or the exception that leaves the inner try.
IdentifyBody(m) ==
    IF m.json = "empty" THEN Ret(None)
    ELSE LET p == JsonLoads(m) IN
         IF p.exc = "JSONDecodeError" THEN Ret(None)
         ELSE IF p.exc # "none" THEN p
         ELSE IF m.json # "object" THEN Raise("AttributeError")
         ELSE IF m.type = "session.update"
              THEN IF m.session = "num" THEN Raise("AttributeError")
                   ELSE IF m.session = "dict" /\ Truthy(m.agent_id)
                        THEN Ret(m.agent_id)
                        ELSE Ret(None)
              ELSE Ret(None)

\* _get_agent_id_from_client on a received frame: except Exception turns
\* every exception of the body into the final "return None".
GetAgentIdFromFrame(m) ==
    LET r == IdentifyBody(m) IN
    IF r.exc = "none" THEN r ELSE Ret(None)

\* a stripping step that deletes the whole session object
MutStripAgentIdDropsSession(msg) ==
    LET m == msg.body
        p == JsonLoads(m)
    IN  IF p.exc = "JSONDecodeError" THEN Ret(msg)
        ELSE IF p.exc # "none" THEN p
        ELSE IF m.json # "object" THEN Raise("AttributeError")
        ELSE IF m.type = "session.update" /\ m.session # "absent"
             THEN IF m.session # "dict" THEN Raise("TypeError")
                  ELSE IF m.agent_id # "absent"
                       THEN Ret([msg EXCEPT !.body.agent_id = "absent",
                                            !.body.session = "absent",
                                            !.reser = TRUE])
                       ELSE Ret(msg)
             ELSE Ret(msg)

\* Lines 358-367 of _forward_client_to_azure: the message that goes on to
\* azure_ws.send, or the exception that leaves the inner try (only
\* JSONDecodeError and KeyError are caught there).
StripAgentId(msg) ==
    LET m == msg.body
        p == JsonLoads(m)
    IN  IF p.exc = "JSONDecodeError" THEN Ret(msg)
        ELSE IF p.exc # "none" THEN p
        ELSE IF m.json # "object" THEN Raise("AttributeError")
        ELSE IF m.type = "session.update" /\ m.session # "absent"
             THEN IF m.session # "dict" THEN Raise("TypeError")
                  ELSE IF m.agent_id # "absent"
                       THEN Ret([msg EXCEPT !.body.agent_id = "absent",
                                            !.reser = TRUE])
                       ELSE Ret(msg)
             ELSE Ret(msg)

\* json.dumps(session, sort_keys=True): the key order is gone.
Canonical(b) == b.session

\* hash() of the canonical text; last_session_updated_hash starts as None,
\* which equals no hash value.
NoHash == -1
Hash(c) == CASE c = "absent" -> 1 [] c = "A" -> 2 [] c = "B" -> 3 [] OTHER -> 4

\* a filter that remembers the first session.updated content for good
MutFilterUpstreamKeepsFirst(msg, last) ==
    LET b == msg.body IN
    IF b.json = "invalid" THEN [do |-> "forward", hash |-> last]
    ELSE IF b.json # "object" THEN [do |-> "raise", hash |-> last]
    ELSE IF b.type = "session.updated"
         THEN IF Hash(Canonical(b)) = last
              THEN [do |-> "skip", hash |-> last]
              ELSE [do |-> "forward",
                    hash |-> IF last = NoHash THEN Hash(Canonical(b)) ELSE last]
         ELSE [do |-> "forward", hash |-> last]

\* Lines 385-410 of _forward_azure_to_client for one frame: what happens to
\* it ("forward", "skip", or "raise" when an exception other than
\* JSONDecodeError leaves the inner try) and the new last hash.
FilterUpstream(msg, last) ==
    LET b == msg.body IN
    IF b.json = "invalid" THEN [do |-> "forward", hash |-> last]
    ELSE IF b.json # "object" THEN [do |-> "raise", hash |-> last]
    ELSE IF b.type = "session.updated"
         THEN IF Hash(Canonical(b)) = last
              THEN [do |-> "skip", hash |-> last]
              ELSE [do |-> "forward", hash |-> Hash(Canonical(b))]
         ELSE [do |-> "forward", hash |-> last]

\* timeout_seconds of _get_agent_id_from_client
timeout_seconds == 10

\* ----------------------------------------------------------- config
\* config keys as the handler reads them; TRUE = a non-empty value is set.
\* Every key is there (line 254 subscripts config["agent_id"] on the path
\* without a fixed agent); an unset one holds an empty value.
AllConfigs ==
    [ agent_id : {None, "P"},
      azure_ai_resource_name : BOOLEAN,
      azure_ai_project_name : BOOLEAN,
      azure_openai_api_key : BOOLEAN,
      project_endpoint : BOOLEAN,
      model_deployment_name : BOOLEAN,
      azure_voice_name : BOOLEAN,
      azure_voice_type : BOOLEAN ]

\* the configurations of the connection life cycle: the settings that are
\* only copied into the URL and the session configuration are set
Configs ==
    { c \in AllConfigs : /\ c.project_endpoint
                         /\ c.model_deployment_name
                         /\ c.azure_voice_name
                         /\ c.azure_voice_type }

\* config.get(k) / config[k] of a text setting: its value, named after the
\* key, or the empty text
Value(c, k) == IF c[k] THEN k ELSE ""

\* ------------------------------------------------------- upstream URL
\* The URL as its host and its query parameters; "absent" = the parameter
\* is not in the URL.
AZURE_VOICE_API_VERSION == "2025-05-01-preview"

NoUrl ==
    [ resource |-> "absent", api_version |-> "absent",
      request_id |-> "absent", agent_id |-> "absent",
      agent_project_name |-> "absent", connection_string |-> "absent",
      model |-> "absent" ]

\* _build_base_azure_url; the request id is a fresh uuid4
BuildBaseAzureUrl(c) ==
    [ NoUrl EXCEPT !.resource = Value(c, "azure_ai_resource_name"),
                   !.api_version = AZURE_VOICE_API_VERSION,
                   !.request_id = "uuid4" ]

\* agent_config.get("model", config["model_deployment_name"])
AgentModel(c, model) ==
    IF model # None THEN model ELSE Value(c, "model_deployment_name")

\* _build_agent_specific_url
BuildAgentSpecificUrl(c, base_url, agent_id, cfg, model) ==
    IF cfg = "remote"
    THEN [ base_url EXCEPT
             !.agent_id = agent_id,
             !.agent_project_name = Value(c, "azure_ai_project_name"),
             !.connection_string = IF c.project_endpoint
                                   THEN Value(c, "project_endpoint")
                                   ELSE "absent" ]
    ELSE [ base_url EXCEPT !.model = AgentModel(c, model) ]

\* a URL builder that routes by the fixed agent id before looking at the
\* resolved agent
MutBuildAzureUrlFixedIdFirst(c, agent_id, cfg, model) ==
    IF c.agent_id # None
    THEN [ BuildBaseAzureUrl(c) EXCEPT !.agent_id = c.agent_id ]
    ELSE IF cfg # None
    THEN BuildAgentSpecificUrl(c, BuildBaseAzureUrl(c), agent_id, cfg, model)
    ELSE [ BuildBaseAzureUrl(c) EXCEPT
             !.model = Value(c, "model_deployment_name") ]

\* _build_azure_url
BuildAzureUrl(c, agent_id, cfg, model) ==
    IF cfg # None
    THEN BuildAgentSpecificUrl(c, BuildBaseAzureUrl(c), agent_id, cfg, model)
    ELSE IF c.agent_id # None
    THEN [ BuildBaseAzureUrl(c) EXCEPT !.agent_id = c.agent_id ]
    ELSE [ BuildBaseAzureUrl(c) EXCEPT
             !.model = Value(c, "model_deployment_name") ]

\* ----------------------------------------------- session configuration
\* The payload of the initial session.update; "absent" = the key is not in
\* the session object.
NoSessionConfig ==
    [ type |-> "absent", modalities |-> "absent", turn_detection |-> "absent",
      input_audio_noise_reduction |-> "absent",
      input_audio_echo_cancellation |-> "absent",
      avatar_character |-> "absent", avatar_style |-> "absent",
      voice_name |-> "absent", voice_type |-> "absent",
      model |-> "absent", instructions |-> "absent",
      temperature |-> "absent", max_response_output_tokens |-> "absent" ]

\* _build_session_config
BuildSessionConfig(c) ==
    [ NoSessionConfig EXCEPT
        !.type = "session.update",
        !.modalities = "text,audio",
        !.turn_detection = "azure_semantic_vad",
        !.input_audio_noise_reduction = "azure_deep_noise_suppression",
        !.input_audio_echo_cancellation = "server_echo_cancellation",
        !.avatar_character = "lisa",
        !.avatar_style = "casual-sitting",
        !.voice_name = Value(c, "azure_voice_name"),
        !.voice_type = Value(c, "azure_voice_type") ]

\* _add_local_agent_config; the agent's own values are named after the
\* keys they are read from
AddLocalAgentConfig(c, msg, model) ==
    [ msg EXCEPT !.model = AgentModel(c, model),
                 !.instructions = "agent.instructions",
                 !.temperature = "agent.temperature",
                 !.max_response_output_tokens = "agent.max_tokens" ]

\* an initial configuration that copies the agent fields of every resolved
\* agent, the remote ones included
MutInitialConfigAnyAgent(c, cfg, model) ==
    IF cfg # None
    THEN AddLocalAgentConfig(c, BuildSessionConfig(c), model)
    ELSE BuildSessionConfig(c)

\* lines 290-293 of _send_initial_config: the message before it is sent
InitialConfig(c, cfg, model) ==
    IF cfg # None /\ cfg # "remote"
    THEN AddLocalAgentConfig(c, BuildSessionConfig(c), model)
    ELSE BuildSessionConfig(c)

VARIABLES
    config,             \* process configuration (src.config.config)
    pc,                 \* position of handle_connection
    outcome,            \* "running", "returned", "raised"
    current_agent_id,   \* local of handle_connection
    azure_ws,           \* local of handle_connection: None or "conn"
    agent_config,       \* local of _connect_to_azure: None, "local", "remote"
    headers,            \* local of _connect_to_azure: None, "bearer", "api-key"
    agent_model,        \* agent_config.get("model"): None or the agent's model
    token,              \* local of _connect_to_azure: scope the token was issued for
    azure_url,          \* local of _connect_to_azure
    config_message,     \* local of _send_initial_config
    tokenCalls,         \* credential.get_token calls and their results, in order
    connectCalls,       \* websockets.connect invocations
    connState,          \* the upstream connection: "unopened", "open", "closed"
    closeCalls,         \* number of close() invocations on it
    failStage,          \* stage at which _connect_to_azure gave up
    registryCalls,      \* calls made to the agent manager, in order
    clientOpen,         \* client websocket still connected
    clientSentN,        \* frames the client has sent so far
    clientIn,           \* input buffer of the client websocket
    idRead,             \* identification receive: "none", "pending", "abandoned", "finished"
    elapsed,            \* time units waited by asyncio.wait_for
    idFrame,            \* id of the frame the identification step got, 0 if none
    dropped,            \* ids of frames taken by a receive whose result nobody awaits
    c2a,                \* _forward_client_to_azure task state
    c2aMsg,             \* frame it holds
    a2c,                \* _forward_azure_to_client task state
    a2cMsg,             \* frame it holds
    last_session_updated_hash,
    orphanSend,         \* executor send left running by a cancelled task
    upSentN,            \* frames the upstream service has sent so far
    upIn,               \* frames waiting on the upstream connection
    upEnded,            \* upstream service closed its side
    upOut,              \* frames sent over the upstream connection, in order
    clientOut,          \* frames delivered to the client, in order
    connectedCalls,     \* _send_message(proxy.connected) invocations
    errorCalls          \* _send_error invocations

vars == << config, pc, outcome, current_agent_id, azure_ws, agent_config,
           headers, agent_model, token, azure_url, config_message,
           tokenCalls, connectCalls, connState, closeCalls, failStage, registryCalls,
           clientOpen, clientSentN, clientIn, idRead, elapsed, idFrame,
           dropped,
           c2a, c2aMsg, a2c, a2cMsg, last_session_updated_hash, orphanSend,
           upSentN, upIn, upEnded, upOut, clientOut, connectedCalls,
           errorCalls >>

\* A frame travelling client -> upstream: the client's n-th frame, or the
\* initial configuration (src "config"); reser = the text was produced again
\* by json.dumps.
Msg(n, s, k, r) == [id |-> n, src |-> s, body |-> k, reser |-> r]
NoMsg == Msg(0, "none", Frame("empty", "absent", "absent", "absent"), FALSE)

\* ----------------------------------------------------- upstream frames
\*   json    "invalid" (text that is not JSON), "binary" (bytes that are
\*           not UTF-8), "array", "object"
\*   type    value of the "type" key: "session.updated", "other", "absent"
\*   session content of the "session" key up to key order: "absent", "A", "B"
\*   order   which of two key orders the text uses
UpFrame(j, t, s, o) == [json |-> j, type |-> t, session |-> s, order |-> o]

\* the frames the upstream service sends in the connection life cycle: a
\* session.updated message (relayed the first time, skipped when repeated)
\* and one that ends the forwarding loop
UpstreamFrameKinds ==
    { UpFrame("object", "session.updated", "A", 1),
      UpFrame("array", "absent", "absent", 1) }

\* every shape _forward_azure_to_client tells apart
AllUpstreamFrameKinds ==
    { UpFrame("object", "session.updated", "A", 1),
      UpFrame("object", "session.updated", "A", 2),
      UpFrame("object", "session.updated", "B", 1),
      UpFrame("object", "other", "absent", 1),
      UpFrame("invalid", "absent", "absent", 1),
      UpFrame("binary", "absent", "absent", 1),
      UpFrame("array", "absent", "absent", 1) }

\* A frame travelling towards the client: the upstream service's n-th frame
\* (src "upstream") or a notification of the handler (src "proxy").
UpMsg(n, s, k) == [id |-> n, src |-> s, body |-> k]
NoUpMsg == UpMsg(0, "none", UpFrame("invalid", "absent", "absent", 1))
ConnectedMsg == UpMsg(0, "proxy", UpFrame("object", "proxy.connected", "absent", 1))
ErrorMsg == UpMsg(0, "proxy", UpFrame("object", "error", "absent", 1))

\* the state after construction, whatever the configuration
InitRest ==
    /\ pc = "start"
    /\ outcome = "running"
    /\ current_agent_id = None
    /\ azure_ws = None
    /\ agent_config = None
    /\ headers = None
    /\ agent_model = None
    /\ token = None
    /\ azure_url = NoUrl
    /\ config_message = NoSessionConfig
    /\ tokenCalls = << >>
    /\ connectCalls = 0
    /\ connState = "unopened"
    /\ closeCalls = 0
    /\ failStage = "none"
    /\ registryCalls = << >>
    /\ clientOpen = TRUE
    /\ clientSentN = 0
    /\ clientIn = << >>
    /\ idRead = "none"
    /\ elapsed = 0
    /\ idFrame = 0
    /\ dropped = {}
    /\ c2a = "unborn"
    /\ c2aMsg = NoMsg
    /\ a2c = "unborn"
    /\ a2cMsg = NoUpMsg
    /\ last_session_updated_hash = NoHash
    /\ orphanSend = NoUpMsg
    /\ upSentN = 0
    /\ upIn = << >>
    /\ upEnded = FALSE
    /\ upOut = << >>
    /\ clientOut = << >>
    /\ connectedCalls = 0
    /\ errorCalls = 0

Init ==
    /\ config \in Configs
    /\ InitRest

\* ------------------------------------------------------ the client side
ClientMsg(n, k) == Msg(n, "client", k, FALSE)

\* The client sends one more frame; it lands in the websocket's input buffer.
ClientSends ==
    /\ pc # "done"
    /\ clientOpen
    /\ clientSentN < MaxClientFrames
    /\ \E k \in ClientFrameKinds :
          clientIn' = Append(clientIn, ClientMsg(clientSentN + 1, k))
    /\ clientSentN' = clientSentN + 1
    /\ UNCHANGED << config, pc, outcome, current_agent_id, azure_ws,
                    agent_config, headers, agent_model, token, azure_url,
                    config_message, tokenCalls, connectCalls,
                    connState, closeCalls, failStage,
                    registryCalls, clientOpen, idRead, elapsed, idFrame,
                    dropped, c2a, c2aMsg, a2c, a2cMsg,
                    last_session_updated_hash, orphanSend, upSentN, upIn,
                    upEnded, upOut, clientOut, connectedCalls, errorCalls >>

\* The client disconnects: later receive() on an empty buffer and send()
\* raise ConnectionClosed.
ClientCloses ==
    /\ pc # "done"
    /\ clientOpen
    /\ clientOpen' = FALSE
    /\ UNCHANGED << config, pc, outcome, current_agent_id, azure_ws,
                    agent_config, headers, agent_model, token, azure_url,
                    config_message, tokenCalls, connectCalls,
                    connState, closeCalls, failStage,
                    registryCalls, clientSentN, clientIn, idRead, elapsed,
                    idFrame, dropped, c2a, c2aMsg, a2c, a2cMsg,
                    last_session_updated_hash, orphanSend, upSentN, upIn,
                    upEnded, upOut, clientOut, connectedCalls, errorCalls >>

\* --------------------------------------------------- handle_connection
ClientEnv == << clientOpen, clientSentN, clientIn >>
UpstreamEnv == << upSentN, upIn, upEnded >>
Tasks == << c2a, c2aMsg, a2c, a2cMsg, last_session_updated_hash, orphanSend >>
ConnectLocals == << agent_config, headers, agent_model, token, azure_url,
                    config_message, tokenCalls, connectCalls, connState,
                    closeCalls, failStage >>

\* a handler that runs the identification step although an id is configured
MutStartPredefinedIdentifies ==
    /\ pc = "start"
    /\ config.agent_id # None
    /\ registryCalls' = Append(registryCalls,
                               << "create_or_get_agent", "predefined", "dummy_scenario" >>)
    /\ pc' = "identify"
    /\ idRead' = "pending"
    /\ UNCHANGED << config, outcome, current_agent_id, azure_ws, ConnectLocals,
                    ClientEnv, elapsed, idFrame, dropped, Tasks, UpstreamEnv,
                    upOut, clientOut, connectedCalls, errorCalls >>

\* lines 68-86, fixed agent id configured: create_or_get_agent("predefined",
\* dummy_scenario) is called outside the try block.
StartPredefined ==
    /\ pc = "start"
    /\ config.agent_id # None
    /\ current_agent_id' = config.agent_id
    /\ registryCalls' = Append(registryCalls,
                               << "create_or_get_agent", "predefined", "dummy_scenario" >>)
    /\ pc' = "connect"
    /\ UNCHANGED << config, outcome, azure_ws, ConnectLocals, ClientEnv, idRead,
                    elapsed, idFrame, dropped, Tasks, UpstreamEnv, upOut,
                    clientOut, connectedCalls, errorCalls >>

\* the same call raising: nothing catches it, handle_connection raises.
StartPredefinedRaises ==
    /\ pc = "start"
    /\ config.agent_id # None
    /\ current_agent_id' = config.agent_id
    /\ registryCalls' = Append(registryCalls,
                               << "create_or_get_agent", "predefined", "dummy_scenario" >>)
    /\ pc' = "done"
    /\ outcome' = "raised"
    /\ UNCHANGED << config, azure_ws, ConnectLocals, ClientEnv, idRead,
                    elapsed, idFrame, dropped, Tasks, UpstreamEnv, upOut,
                    clientOut, connectedCalls, errorCalls >>

\* lines 87-88 and 119-125: no fixed agent id, the identification step
\* submits client_ws.receive to the executor and waits for it.
StartIdentify ==
    /\ pc = "start"
    /\ config.agent_id = None
    /\ pc' = "identify"
    /\ idRead' = "pending"
    /\ UNCHANGED << config, outcome, current_agent_id, azure_ws, ConnectLocals,
                    registryCalls, ClientEnv, elapsed, idFrame, dropped, Tasks,
                    UpstreamEnv, upOut, clientOut, connectedCalls, errorCalls >>

\* time passes while the receive is blocked on an empty buffer
Tick ==
    /\ pc = "identify"
    /\ clientIn = << >>
    /\ clientOpen
    /\ elapsed < timeout_seconds
    /\ elapsed' = elapsed + 1
    /\ UNCHANGED << config, pc, outcome, current_agent_id, azure_ws,
                    ConnectLocals, registryCalls, ClientEnv, idRead, idFrame,
                    dropped, Tasks, UpstreamEnv, upOut, clientOut,
                    connectedCalls, errorCalls >>

\* identification that leaves the frame it inspected in the buffer
MutIdentifyReceivePeeks ==
    /\ pc = "identify"
    /\ clientIn # << >>
    /\ LET m == Head(clientIn) IN
          /\ idFrame' = m.id
          /\ current_agent_id' = GetAgentIdFromFrame(m.body).val
    /\ idRead' = "finished"
    /\ elapsed' = 0
    /\ pc' = "connect"
    /\ UNCHANGED << config, outcome, azure_ws, ConnectLocals, registryCalls,
                    ClientEnv, dropped, Tasks, UpstreamEnv, upOut, clientOut,
                    connectedCalls, errorCalls >>

\* lines 127-148, 156-157: the first frame arrived before the timeout.
IdentifyReceive ==
    /\ pc = "identify"
    /\ clientIn # << >>
    /\ LET m == Head(clientIn) IN
          /\ idFrame' = m.id
          /\ current_agent_id' = GetAgentIdFromFrame(m.body).val
    /\ clientIn' = Tail(clientIn)
    /\ idRead' = "finished"
    /\ elapsed' = 0
    /\ pc' = "connect"
    /\ UNCHANGED << config, outcome, azure_ws, ConnectLocals, registryCalls,
                    clientOpen, clientSentN, dropped, Tasks, UpstreamEnv, upOut,
                    clientOut, connectedCalls, errorCalls >>

\* lines 150-151: asyncio.TimeoutError; the executor thread stays blocked in
\* client_ws.receive.
IdentifyTimeout ==
    /\ pc = "identify"
    /\ clientIn = << >>
    /\ clientOpen
    /\ elapsed = timeout_seconds
    /\ current_agent_id' = None
    /\ idRead' = "abandoned"
    /\ elapsed' = 0
    /\ pc' = "connect"
    /\ UNCHANGED << config, outcome, azure_ws, ConnectLocals, registryCalls,
                    ClientEnv, idFrame, dropped, Tasks, UpstreamEnv, upOut,
                    clientOut, connectedCalls, errorCalls >>

\* lines 152-153: receive raised (client gone).
IdentifyError ==
    /\ pc = "identify"
    /\ clientIn = << >>
    /\ ~clientOpen
    /\ current_agent_id' = None
    /\ idRead' = "finished"
    /\ elapsed' = 0
    /\ pc' = "connect"
    /\ UNCHANGED << config, outcome, azure_ws, ConnectLocals, registryCalls,
                    ClientEnv, idFrame, dropped, Tasks, UpstreamEnv, upOut,
                    clientOut, connectedCalls, errorCalls >>

\* the receive left behind by the timeout returns: it takes the next frame
\* out of the buffer (nobody looks at the result), or raises once the
\* client is gone.
AbandonedReceive ==
    /\ idRead = "abandoned"
    /\ \/ /\ clientIn # << >>
          /\ dropped' = dropped \cup {Head(clientIn).id}
          /\ clientIn' = Tail(clientIn)
       \/ /\ clientIn = << >>
          /\ ~clientOpen
          /\ UNCHANGED << dropped, clientIn >>
    /\ idRead' = "finished"
    /\ UNCHANGED << config, pc, outcome, current_agent_id, azure_ws,
                    ConnectLocals, registryCalls, clientOpen, clientSentN,
                    elapsed, idFrame, Tasks, UpstreamEnv, upOut, clientOut,
                    connectedCalls, errorCalls >>

\* --------------------------------------------------- _connect_to_azure
HandlerRest == << config, outcome, current_agent_id, azure_ws, ClientEnv,
                  idRead, elapsed, idFrame, dropped, Tasks, UpstreamEnv,
                  clientOut, connectedCalls, errorCalls >>

\* a return of _connect_to_azure: its locals are gone
ConnectReturns ==
    /\ agent_config' = None
    /\ agent_model' = None
    /\ headers' = None
    /\ token' = None
    /\ azure_url' = NoUrl
    /\ config_message' = NoSessionConfig

\* what a step of _connect_to_azure before the connect leaves alone
BeforeConnect == << HandlerRest, connState, closeCalls, upOut, connectCalls >>

\* lines 164-171: azure_ai_resource_name is not configured, return None.
MissingConfig ==
    /\ pc = "connect"
    /\ ~config.azure_ai_resource_name
    /\ failStage' = "config"
    /\ pc' = "connect_failed"
    /\ ConnectReturns
    /\ UNCHANGED << BeforeConnect, registryCalls, tokenCalls >>

\* line 173 without an agent id: no registry call, agent_config = None.
ResolveNoAgent ==
    /\ pc = "connect"
    /\ config.azure_ai_resource_name
    /\ current_agent_id = None
    /\ agent_config' = None
    /\ pc' = "auth"
    /\ UNCHANGED << BeforeConnect, headers, agent_model, token, azure_url,
                    config_message, failStage, registryCalls, tokenCalls >>

\* line 173: agent_manager.get_agent(agent_id) answers with no agent, a
\* local agent (with or without a model of its own) or a remote
\* (is_azure_agent) one, whose model is never read.
ResolveAgent ==
    /\ pc = "connect"
    /\ config.azure_ai_resource_name
    /\ current_agent_id # None
    /\ registryCalls' = Append(registryCalls, << "get_agent", current_agent_id >>)
    /\ \E cfg \in {None, "local", "remote"}, m \in {None, "agent.model"} :
          /\ agent_config' = cfg
          /\ agent_model' = IF cfg = "local" THEN m ELSE None
    /\ pc' = "auth"
    /\ UNCHANGED << BeforeConnect, headers, token, azure_url, config_message,
                    failStage, tokenCalls >>

\* line 173 raising: caught at line 238, azure_ws is None there, return None.
ResolveAgentRaises ==
    /\ pc = "connect"
    /\ config.azure_ai_resource_name
    /\ current_agent_id # None
    /\ registryCalls' = Append(registryCalls, << "get_agent", current_agent_id >>)
    /\ failStage' = "resolve"
    /\ pc' = "connect_failed"
    /\ ConnectReturns
    /\ UNCHANGED << BeforeConnect, tokenCalls >>

\* lines 178-183: remote agent without azure_ai_project_name.
AuthProjectMissing ==
    /\ pc = "auth"
    /\ agent_config = "remote"
    /\ ~config.azure_ai_project_name
    /\ failStage' = "auth"
    /\ pc' = "connect_failed"
    /\ ConnectReturns
    /\ UNCHANGED << BeforeConnect, registryCalls, tokenCalls >>

\* the two scopes of credential.get_token, lines 189 and 198
PrimaryScope == "https://ai.azure.com/.default"
FallbackScope == "https://cognitiveservices.azure.com/.default"

\* one credential.get_token call: the scope and whether it gave a token
\* ("token") or raised ("error")
TokenCall(scope, result) == << scope, result >>

\* an authentication that goes on to connect without a token
MutAuthTokenFailsConnects ==
    /\ pc = "auth"
    /\ agent_config = "remote"
    /\ config.azure_ai_project_name
    /\ tokenCalls' = tokenCalls \o << TokenCall(PrimaryScope, "error"),
                                      TokenCall(FallbackScope, "error") >>
    /\ headers' = "bearer"
    /\ azure_url' = BuildAzureUrl(config, current_agent_id, agent_config,
                                  agent_model)
    /\ pc' = "open"
    /\ UNCHANGED << BeforeConnect, agent_config, agent_model, token,
                    config_message, failStage, registryCalls >>

\* lines 203-205: both scopes failed.
AuthTokenFails ==
    /\ pc = "auth"
    /\ agent_config = "remote"
    /\ config.azure_ai_project_name
    /\ tokenCalls' = tokenCalls \o << TokenCall(PrimaryScope, "error"),
                                      TokenCall(FallbackScope, "error") >>
    /\ failStage' = "auth"
    /\ pc' = "connect_failed"
    /\ ConnectReturns
    /\ UNCHANGED << BeforeConnect, registryCalls >>

\* lines 186-202 and 215: a token is obtained under the first scope, or
\* under the fallback scope after the first failed; the URL is built.
AuthToken ==
    /\ pc = "auth"
    /\ agent_config = "remote"
    /\ config.azure_ai_project_name
    /\ \/ /\ tokenCalls' = Append(tokenCalls, TokenCall(PrimaryScope, "token"))
          /\ token' = PrimaryScope
       \/ /\ tokenCalls' = tokenCalls \o << TokenCall(PrimaryScope, "error"),
                                            TokenCall(FallbackScope, "token") >>
          /\ token' = FallbackScope
    /\ headers' = "bearer"
    /\ azure_url' = BuildAzureUrl(config, current_agent_id, agent_config,
                                  agent_model)
    /\ pc' = "open"
    /\ UNCHANGED << BeforeConnect, agent_config, agent_model, config_message,
                    failStage, registryCalls >>

\* an authentication that connects without the static key when it is not set
MutAuthApiKeyOptional ==
    /\ pc = "auth"
    /\ agent_config # "remote"
    /\ headers' = IF config.azure_openai_api_key THEN "api-key" ELSE None
    /\ azure_url' = BuildAzureUrl(config, current_agent_id, agent_config,
                                  agent_model)
    /\ pc' = "open"
    /\ UNCHANGED << BeforeConnect, agent_config, agent_model, token,
                    config_message, failStage, registryCalls, tokenCalls >>

\* lines 206-215: local agent or no agent, static key; the URL is built.
AuthApiKey ==
    /\ pc = "auth"
    /\ agent_config # "remote"
    /\ IF config.azure_openai_api_key
       THEN /\ headers' = "api-key"
            /\ azure_url' = BuildAzureUrl(config, current_agent_id,
                                          agent_config, agent_model)
            /\ pc' = "open"
            /\ UNCHANGED << agent_config, agent_model, token, config_message,
                            failStage >>
       ELSE /\ failStage' = "auth"
            /\ pc' = "connect_failed"
            /\ ConnectReturns
    /\ UNCHANGED << BeforeConnect, registryCalls, tokenCalls >>

\* what a step of _connect_to_azure from the connect on leaves alone
AfterAuth == << HandlerRest, registryCalls, tokenCalls >>

\* line 224: websockets.connect(azure_url, additional_headers=headers)
\* succeeds; lines 290-293 build the initial configuration.
OpenUpstream ==
    /\ pc = "open"
    /\ connectCalls' = connectCalls + 1
    /\ connState' = "open"
    /\ config_message' = InitialConfig(config, agent_config, agent_model)
    /\ pc' = "configure"
    /\ UNCHANGED << AfterAuth, agent_config, agent_model, headers, token,
                    azure_url, closeCalls, failStage, upOut >>

\* a connector that tries the connect a second time after a failure
MutOpenUpstreamFailsRetries ==
    /\ pc = "open"
    /\ connectCalls < 2
    /\ connectCalls' = connectCalls + 1
    /\ UNCHANGED << AfterAuth, pc, agent_config, agent_model, headers, token,
                    azure_url, config_message, connState, closeCalls,
                    failStage, upOut >>

\* line 224 raising InvalidStatusCode, another WebSocketException or any
\* other exception: azure_ws of _connect_to_azure is still None, so none of
\* the handlers at 231-246 has anything to close.
OpenUpstreamFails ==
    /\ pc = "open"
    /\ connectCalls' = connectCalls + 1
    /\ failStage' = "connect"
    /\ pc' = "connect_failed"
    /\ ConnectReturns
    /\ UNCHANGED << AfterAuth, connState, closeCalls, upOut >>

\* The initial session.update on the wire; config_message is its payload.
ConfigMsg == Msg(0, "config", Frame("object", "session.update", "dict", "absent"), FALSE)

\* a connector that returns the connection without configuring it
MutSendInitialConfigSkipped ==
    /\ pc = "configure"
    /\ azure_ws' = "conn"
    /\ pc' = "notify"
    /\ ConnectReturns
    /\ UNCHANGED << config, outcome, current_agent_id, connState, closeCalls,
                    failStage, registryCalls, tokenCalls, connectCalls,
                    ClientEnv, idRead, elapsed,
                    idFrame, dropped, Tasks, UpstreamEnv, upOut, clientOut,
                    connectedCalls, errorCalls >>

\* lines 227-229: the initial configuration is sent, the connection is
\* returned to handle_connection.
SendInitialConfig ==
    /\ pc = "configure"
    /\ upOut' = Append(upOut, ConfigMsg)
    /\ azure_ws' = "conn"
    /\ pc' = "notify"
    /\ ConnectReturns
    /\ UNCHANGED << config, outcome, current_agent_id, connState, closeCalls, failStage,
                    registryCalls, tokenCalls, connectCalls,
                    ClientEnv, idRead, elapsed, idFrame, dropped,
                    Tasks, UpstreamEnv, clientOut, connectedCalls, errorCalls >>

\* line 227 raising a websockets exception (ConnectionClosed out of
\* azure_ws.send): caught at 231 or 235, which return None and do not
\* touch the connection.
SendInitialConfigWsError ==
    /\ pc = "configure"
    /\ failStage' = "configure"
    /\ pc' = "connect_failed"
    /\ ConnectReturns
    /\ UNCHANGED << AfterAuth, connectCalls, connState, closeCalls, upOut >>

\* line 227 raising anything else (KeyError while building the payload,
\* TypeError, OSError): caught at 238, the connection is closed there; an
\* exception of close() itself is swallowed at 244.
SendInitialConfigError ==
    /\ pc = "configure"
    /\ closeCalls' = closeCalls + 1
    /\ connState' = "closed"
    /\ failStage' = "configure"
    /\ pc' = "connect_failed"
    /\ ConnectReturns
    /\ UNCHANGED << AfterAuth, connectCalls, upOut >>

\* ----------------------------------------- handle_connection, lines 90-109
\* _send_message: the frame reaches the client unless client_ws.send
\* raises, which is swallowed at 428.
Deliver(out, m) == IF clientOpen THEN Append(out, m) ELSE out

\* a handler that returns on a failed connect without telling the client
MutSendConnectErrorSilent ==
    /\ pc = "connect_failed"
    /\ pc' = "done"
    /\ outcome' = "returned"
    /\ UNCHANGED << config, current_agent_id, azure_ws, ConnectLocals,
                    registryCalls, ClientEnv, idRead, elapsed, idFrame, dropped,
                    Tasks, UpstreamEnv, upOut, clientOut, connectedCalls,
                    errorCalls >>

\* lines 92-94 and 107-109: _connect_to_azure returned None; the error
\* frame is sent, and the finally block finds azure_ws = None.
SendConnectError ==
    /\ pc = "connect_failed"
    /\ errorCalls' = errorCalls + 1
    /\ clientOut' = Deliver(clientOut, ErrorMsg)
    /\ pc' = "done"
    /\ outcome' = "returned"
    /\ UNCHANGED << config, current_agent_id, azure_ws, ConnectLocals,
                    registryCalls, ClientEnv, idRead, elapsed, idFrame, dropped,
                    Tasks, UpstreamEnv, upOut, connectedCalls >>

\* a handler that starts forwarding without the connected notification
MutNotifyConnectedSkipped ==
    /\ pc = "notify"
    /\ pc' = "forward"
    /\ UNCHANGED << config, outcome, current_agent_id, azure_ws, ConnectLocals,
                    registryCalls, ClientEnv, idRead, elapsed, idFrame, dropped,
                    Tasks, UpstreamEnv, upOut, clientOut, connectedCalls,
                    errorCalls >>

\* lines 96-99
NotifyConnected ==
    /\ pc = "notify"
    /\ connectedCalls' = connectedCalls + 1
    /\ clientOut' = Deliver(clientOut, ConnectedMsg)
    /\ pc' = "forward"
    /\ UNCHANGED << config, outcome, current_agent_id, azure_ws, ConnectLocals,
                    registryCalls, ClientEnv, idRead, elapsed, idFrame, dropped,
                    Tasks, UpstreamEnv, upOut, errorCalls >>

\* lines 331-336: both tasks are created and run up to their first await.
StartForwarding ==
    /\ pc = "forward"
    /\ c2a' = "recv"
    /\ a2c' = "recv"
    /\ pc' = "waiting"
    /\ UNCHANGED << config, outcome, current_agent_id, azure_ws, ConnectLocals,
                    registryCalls, ClientEnv, idRead, elapsed, idFrame, dropped,
                    c2aMsg, a2cMsg, last_session_updated_hash, orphanSend,
                    UpstreamEnv, upOut, clientOut, connectedCalls, errorCalls >>

\* forwarding that re-raises the failure of the finished task, so that the
\* handler's except branch sends an error frame
MutForwardingReturnsRaises ==
    /\ pc = "waiting"
    /\ c2a = "done" \/ a2c = "done"
    /\ c2a' = IF c2a = "done" THEN "done" ELSE "cancelled"
    /\ a2c' = IF a2c = "done" THEN "done" ELSE "cancelled"
    /\ orphanSend' = IF a2c = "send" THEN a2cMsg ELSE orphanSend
    /\ errorCalls' = errorCalls + 1
    /\ clientOut' = Deliver(clientOut, ErrorMsg)
    /\ pc' = "finally"
    /\ UNCHANGED << config, outcome, current_agent_id, azure_ws, ConnectLocals,
                    registryCalls, ClientEnv, idRead, elapsed, idFrame, dropped,
                    c2aMsg, a2cMsg, last_session_updated_hash, UpstreamEnv,
                    upOut, connectedCalls >>

\* forwarding that waits for both tasks (return_when=ALL_COMPLETED)
MutForwardingReturnsWaitsAll ==
    /\ pc = "waiting"
    /\ c2a = "done" /\ a2c = "done"
    /\ pc' = "finally"
    /\ UNCHANGED << config, outcome, current_agent_id, azure_ws, ConnectLocals,
                    registryCalls, ClientEnv, idRead, elapsed, idFrame, dropped,
                    Tasks, UpstreamEnv, upOut, clientOut, connectedCalls,
                    errorCalls >>

\* lines 336-339: asyncio.wait returns once a task is done; the tasks still
\* pending are cancelled, and forwarding returns without awaiting them.  A
\* client_ws.send already handed to the executor keeps running.  The
\* delivery of CancelledError to the cancelled task is folded into this
\* step (the task runs no statement of its own in between);
\* CancelRequested below keeps the two apart.
ForwardingReturns ==
    /\ pc = "waiting"
    /\ c2a = "done" \/ a2c = "done"
    /\ c2a' = IF c2a = "done" THEN "done" ELSE "cancelled"
    /\ a2c' = IF a2c = "done" THEN "done" ELSE "cancelled"
    /\ orphanSend' = IF a2c = "send" THEN a2cMsg ELSE orphanSend
    /\ pc' = "finally"
    /\ UNCHANGED << config, outcome, current_agent_id, azure_ws, ConnectLocals,
                    registryCalls, ClientEnv, idRead, elapsed, idFrame, dropped,
                    c2aMsg, a2cMsg, last_session_updated_hash, UpstreamEnv,
                    upOut, clientOut, connectedCalls, errorCalls >>

\* lines 107-109 after forwarding: azure_ws.close().
Finally ==
    /\ pc = "finally"
    /\ azure_ws # None
    /\ closeCalls' = closeCalls + 1
    /\ connState' = "closed"
    /\ pc' = "done"
    /\ outcome' = "returned"
    /\ UNCHANGED << config, current_agent_id, azure_ws, agent_config, headers,
                    agent_model, token, azure_url, config_message,
                    tokenCalls, connectCalls, failStage, registryCalls, ClientEnv, idRead, elapsed,
                    idFrame, dropped, Tasks, UpstreamEnv, upOut, clientOut,
                    connectedCalls, errorCalls >>

\* the same close() raising: nothing catches it in the finally block.
FinallyCloseRaises ==
    /\ pc = "finally"
    /\ azure_ws # None
    /\ closeCalls' = closeCalls + 1
    /\ connState' = "closed"
    /\ pc' = "done"
    /\ outcome' = "raised"
    /\ UNCHANGED << config, current_agent_id, azure_ws, agent_config, headers,
                    agent_model, token, azure_url, config_message,
                    tokenCalls, connectCalls, failStage, registryCalls, ClientEnv, idRead, elapsed,
                    idFrame, dropped, Tasks, UpstreamEnv, upOut, clientOut,
                    connectedCalls, errorCalls >>

\* ------------------------------------------- _forward_client_to_azure
ForwardRest == << config, pc, outcome, current_agent_id, azure_ws,
                  ConnectLocals, registryCalls, idRead, elapsed, idFrame,
                  dropped, connectedCalls, errorCalls >>

\* lines 349-369: a frame is received and prepared; an exception that
\* leaves the inner try ends the loop at 371.
C2AReceive ==
    /\ c2a = "recv"
    /\ clientIn # << >>
    /\ LET r == StripAgentId(Head(clientIn)) IN
          IF r.exc = "none"
          THEN c2a' = "send" /\ c2aMsg' = r.val
          ELSE c2a' = "done" /\ c2aMsg' = NoMsg
    /\ clientIn' = Tail(clientIn)
    /\ UNCHANGED << ForwardRest, clientOpen, clientSentN, a2c, a2cMsg,
                    last_session_updated_hash, orphanSend, UpstreamEnv, upOut,
                    clientOut >>

\* line 349 raising: the client is gone.
C2AReceiveFails ==
    /\ c2a = "recv"
    /\ clientIn = << >>
    /\ ~clientOpen
    /\ c2a' = "done"
    /\ UNCHANGED << ForwardRest, ClientEnv, c2aMsg, a2c, a2cMsg,
                    last_session_updated_hash, orphanSend, UpstreamEnv, upOut,
                    clientOut >>

\* line 370: azure_ws.send, which raises once the upstream side is closed.
C2ASend ==
    /\ c2a = "send"
    /\ IF connState = "open" /\ ~upEnded
       THEN upOut' = Append(upOut, c2aMsg) /\ c2a' = "recv"
       ELSE upOut' = upOut /\ c2a' = "done"
    /\ c2aMsg' = NoMsg
    /\ UNCHANGED << ForwardRest, ClientEnv, a2c, a2cMsg,
                    last_session_updated_hash, orphanSend, UpstreamEnv,
                    clientOut >>

\* ------------------------------------------- _forward_azure_to_client
\* lines 383-410: next upstream frame; a duplicate session.updated is
\* skipped, an exception other than JSONDecodeError ends the loop at 417.
A2CReceive ==
    /\ a2c = "recv"
    /\ upIn # << >>
    /\ LET f == FilterUpstream(Head(upIn), last_session_updated_hash) IN
          /\ last_session_updated_hash' = f.hash
          /\ CASE f.do = "forward" -> a2c' = "send" /\ a2cMsg' = Head(upIn)
               [] f.do = "skip" -> a2c' = "recv" /\ a2cMsg' = NoUpMsg
               [] OTHER -> a2c' = "done" /\ a2cMsg' = NoUpMsg
    /\ upIn' = Tail(upIn)
    /\ UNCHANGED << ForwardRest, ClientEnv, c2a, c2aMsg, orphanSend, upSentN,
                    upEnded, upOut, clientOut >>

\* line 383: the upstream side closed, the iteration ends or raises.
A2CEnds ==
    /\ a2c = "recv"
    /\ upIn = << >>
    /\ upEnded
    /\ a2c' = "done"
    /\ UNCHANGED << ForwardRest, ClientEnv, c2a, c2aMsg, a2cMsg,
                    last_session_updated_hash, orphanSend, UpstreamEnv, upOut,
                    clientOut >>

\* lines 412-416: client_ws.send in the executor; it raises once the client
\* is gone, which ends the loop at 417.
A2CSend ==
    /\ a2c = "send"
    /\ IF clientOpen
       THEN clientOut' = Append(clientOut, a2cMsg) /\ a2c' = "recv"
       ELSE clientOut' = clientOut /\ a2c' = "done"
    /\ a2cMsg' = NoUpMsg
    /\ UNCHANGED << ForwardRest, ClientEnv, c2a, c2aMsg,
                    last_session_updated_hash, orphanSend, UpstreamEnv, upOut >>

\* the executor send of a cancelled _forward_azure_to_client completes.
OrphanSend ==
    /\ orphanSend # NoUpMsg
    /\ clientOut' = Deliver(clientOut, orphanSend)
    /\ orphanSend' = NoUpMsg
    /\ UNCHANGED << ForwardRest, ClientEnv, c2a, c2aMsg, a2c, a2cMsg,
                    last_session_updated_hash, UpstreamEnv, upOut >>

\* ------------------------------------------- cancellation, step by step
\* lines 336-339 as the event loop runs them: task.cancel() only asks for
\* the cancellation and forwarding returns at once, nothing awaits the
\* task.  A task asked to stop is "cancelling", and "cancelling_recv" when
\* its client_ws.receive is still blocked in the executor.
CancelRequested ==
    /\ pc = "waiting"
    /\ c2a = "done" \/ a2c = "done"
    /\ c2a' = CASE c2a = "done" -> "done"
                [] c2a = "recv" -> "cancelling_recv"
                [] OTHER -> "cancelling"
    /\ a2c' = IF a2c = "done" THEN "done" ELSE "cancelling"
    /\ orphanSend' = IF a2c = "send" THEN a2cMsg ELSE orphanSend
    /\ pc' = "finally"
    /\ UNCHANGED << config, outcome, current_agent_id, azure_ws, ConnectLocals,
                    registryCalls, ClientEnv, idRead, elapsed, idFrame, dropped,
                    c2aMsg, a2cMsg, last_session_updated_hash, UpstreamEnv,
                    upOut, clientOut, connectedCalls, errorCalls >>

\* The event loop resumes _forward_client_to_azure with CancelledError,
\* which "except Exception" at line 371 does not catch: the task ends; a
\* receive in the executor stays behind ("orphan_recv").
C2ACancelled ==
    /\ c2a \in {"cancelling", "cancelling_recv"}
    /\ c2a' = IF c2a = "cancelling_recv" THEN "orphan_recv" ELSE "cancelled"
    /\ UNCHANGED << ForwardRest, ClientEnv, c2aMsg, a2c, a2cMsg,
                    last_session_updated_hash, orphanSend, UpstreamEnv, upOut,
                    clientOut >>

\* the same for _forward_azure_to_client (line 417)
A2CCancelled ==
    /\ a2c = "cancelling"
    /\ a2c' = "cancelled"
    /\ UNCHANGED << ForwardRest, ClientEnv, c2a, c2aMsg, a2cMsg,
                    last_session_updated_hash, orphanSend, UpstreamEnv, upOut,
                    clientOut >>

\* the client_ws.receive (lines 349-352) of the cancelled task returns in
\* its executor thread: it takes the next frame out of the buffer, or
\* raises once the client is gone; nobody looks at the result.
OrphanReceive ==
    /\ c2a \in {"cancelling_recv", "orphan_recv"}
    /\ \/ /\ clientIn # << >>
          /\ dropped' = dropped \cup {Head(clientIn).id}
          /\ clientIn' = Tail(clientIn)
       \/ /\ clientIn = << >>
          /\ ~clientOpen
          /\ UNCHANGED << dropped, clientIn >>
    /\ c2a' = IF c2a = "cancelling_recv" THEN "cancelling" ELSE "cancelled"
    /\ UNCHANGED << config, pc, outcome, current_agent_id, azure_ws,
                    ConnectLocals, registryCalls, clientOpen, clientSentN,
                    idRead, elapsed, idFrame, c2aMsg, a2c, a2cMsg,
                    last_session_updated_hash, orphanSend, UpstreamEnv, upOut,
                    clientOut, connectedCalls, errorCalls >>

\* ------------------------------------------------ the upstream service
UpstreamSends ==
    /\ pc # "done"
    /\ connState = "open"
    /\ ~upEnded
    /\ upSentN < MaxUpstreamFrames
    /\ \E k \in UpstreamFrameKinds :
          upIn' = Append(upIn, UpMsg(upSentN + 1, "upstream", k))
    /\ upSentN' = upSentN + 1
    /\ UNCHANGED << ForwardRest, ClientEnv, Tasks, upEnded, upOut, clientOut >>

UpstreamEnds ==
    /\ pc # "done"
    /\ connState = "open"
    /\ ~upEnded
    /\ upEnded' = TRUE
    /\ UNCHANGED << ForwardRest, ClientEnv, Tasks, upSentN, upIn, upOut, clientOut >>

\* ------------------------------------------------------ specification
Handler ==
    \/ StartPredefined \/ StartPredefinedRaises \/ StartIdentify
    \/ IdentifyReceive \/ IdentifyTimeout \/ IdentifyError
    \/ MissingConfig \/ ResolveNoAgent \/ ResolveAgent \/ ResolveAgentRaises
    \/ AuthProjectMissing \/ AuthToken \/ AuthTokenFails \/ AuthApiKey
    \/ OpenUpstream \/ OpenUpstreamFails
    \/ SendInitialConfig \/ SendInitialConfigWsError \/ SendInitialConfigError
    \/ SendConnectError \/ NotifyConnected \/ StartForwarding
    \/ ForwardingReturns \/ Finally \/ FinallyCloseRaises

Loops ==
    \/ C2AReceive \/ C2AReceiveFails \/ C2ASend
    \/ A2CReceive \/ A2CEnds \/ A2CSend

Environment ==
    \/ ClientSends \/ ClientCloses \/ Tick \/ AbandonedReceive \/ OrphanSend
    \/ UpstreamSends \/ UpstreamEnds

Next == Handler \/ Loops \/ Environment

Spec == Init /\ [][Next]_vars

\* The event loop runs every coroutine that is ready; the client and the
\* upstream service are under no obligation.
FairSpec == Spec /\ WF_vars(Handler) /\ WF_vars(Loops)

\* ------------------------------------------------ identification alone
\* The identification step on every frame shape: the client sends any frame
\* of AllClientFrameKinds, the handler has no fixed agent id.
ClientSendsAny ==
    /\ pc \in {"start", "identify"}
    /\ clientOpen
    /\ clientSentN < MaxClientFrames
    /\ \E k \in AllClientFrameKinds :
          clientIn' = Append(clientIn, ClientMsg(clientSentN + 1, k))
    /\ clientSentN' = clientSentN + 1
    /\ UNCHANGED << ForwardRest, clientOpen, Tasks, UpstreamEnv, upOut, clientOut >>

InitIdentify == Init /\ config.agent_id = None

NextIdentify ==
    \/ StartIdentify \/ ClientSendsAny \/ ClientCloses \/ Tick
    \/ IdentifyReceive \/ IdentifyTimeout \/ IdentifyError \/ AbandonedReceive

SpecIdentify == InitIdentify /\ [][NextIdentify]_vars

\* ------------------------------------------- connection set-up alone
\* handle_connection up to the start of forwarding, under every
\* configuration: each setting may be unset.
InitConnect ==
    /\ config \in AllConfigs
    /\ InitRest

NextConnect ==
    \/ StartPredefined \/ StartPredefinedRaises \/ StartIdentify
    \/ ClientSends \/ ClientCloses \/ IdentifyReceive \/ IdentifyError
    \/ MissingConfig \/ ResolveNoAgent \/ ResolveAgent \/ ResolveAgentRaises
    \/ AuthProjectMissing \/ AuthToken \/ AuthTokenFails \/ AuthApiKey
    \/ OpenUpstream \/ OpenUpstreamFails
    \/ SendInitialConfig \/ SendInitialConfigWsError \/ SendInitialConfigError
    \/ SendConnectError \/ NotifyConnected

SpecConnect == InitConnect /\ [][NextConnect]_vars

\* ------------------------------------------- the forwarding loops alone
\* The state in which _handle_message_forwarding has just started its two
\* tasks, on a connection with a fixed agent id that the registry does not
\* know: configured upstream connection, notified client, nothing received.
InitForward ==
    /\ config = [ agent_id |-> "P", azure_ai_resource_name |-> TRUE,
                  azure_ai_project_name |-> TRUE, azure_openai_api_key |-> TRUE,
                  project_endpoint |-> TRUE, model_deployment_name |-> TRUE,
                  azure_voice_name |-> TRUE, azure_voice_type |-> TRUE ]
    /\ pc = "waiting"
    /\ outcome = "running"
    /\ current_agent_id = "P"
    /\ azure_ws = "conn"
    /\ agent_config = None
    /\ headers = None
    /\ agent_model = None
    /\ token = None
    /\ azure_url = NoUrl
    /\ config_message = NoSessionConfig
    /\ tokenCalls = << >>
    /\ connectCalls = 1
    /\ connState = "open"
    /\ closeCalls = 0
    /\ failStage = "none"
    /\ registryCalls = << << "create_or_get_agent", "predefined", "dummy_scenario" >>,
                          << "get_agent", "P" >> >>
    /\ clientOpen = TRUE
    /\ clientSentN = 0
    /\ clientIn = << >>
    /\ idRead = "none"
    /\ elapsed = 0
    /\ idFrame = 0
    /\ dropped = {}
    /\ c2a = "recv"
    /\ c2aMsg = NoMsg
    /\ a2c = "recv"
    /\ a2cMsg = NoUpMsg
    /\ last_session_updated_hash = NoHash
    /\ orphanSend = NoUpMsg
    /\ upSentN = 0
    /\ upIn = << >>
    /\ upEnded = FALSE
    /\ upOut = << ConfigMsg >>
    /\ clientOut = << ConnectedMsg >>
    /\ connectedCalls = 1
    /\ errorCalls = 0

\* the client sends a frame of any shape while forwarding runs
ClientSendsForward ==
    /\ pc = "waiting"
    /\ clientOpen
    /\ clientSentN < MaxClientFrames
    /\ \E k \in AllClientFrameKinds :
          clientIn' = Append(clientIn, ClientMsg(clientSentN + 1, k))
    /\ clientSentN' = clientSentN + 1
    /\ UNCHANGED << ForwardRest, clientOpen, Tasks, UpstreamEnv, upOut, clientOut >>

\* the upstream service sends a frame of any shape while forwarding runs
UpstreamSendsAny ==
    /\ pc = "waiting"
    /\ connState = "open"
    /\ ~upEnded
    /\ upSentN < MaxDedupFrames
    /\ \E k \in AllUpstreamFrameKinds :
          upIn' = Append(upIn, UpMsg(upSentN + 1, "upstream", k))
    /\ upSentN' = upSentN + 1
    /\ UNCHANGED << ForwardRest, ClientEnv, Tasks, upEnded, upOut, clientOut >>

\* _forward_client_to_azure on every frame shape
NextClientToAzure ==
    \/ ClientSendsForward \/ ClientCloses \/ UpstreamEnds
    \/ C2AReceive \/ C2AReceiveFails \/ C2ASend

SpecClientToAzure == InitForward /\ [][NextClientToAzure]_vars

\* _forward_azure_to_client on every frame shape
NextAzureToClient ==
    \/ UpstreamSendsAny \/ UpstreamEnds \/ ClientCloses
    \/ A2CReceive \/ A2CEnds \/ A2CSend

SpecAzureToClient == InitForward /\ [][NextAzureToClient]_vars

\* ------------------------------------------------------ teardown alone
\* Forwarding and what follows it, with the cancellation taken step by step.
NextTeardown ==
    \/ ClientSends \/ ClientCloses \/ UpstreamSends \/ UpstreamEnds
    \/ C2AReceive \/ C2AReceiveFails \/ C2ASend
    \/ A2CReceive \/ A2CEnds \/ A2CSend
    \/ CancelRequested \/ C2ACancelled \/ A2CCancelled
    \/ OrphanReceive \/ OrphanSend
    \/ Finally \/ FinallyCloseRaises

SpecTeardown == InitForward /\ [][NextTeardown]_vars

\* ============================================================ properties
Range(q) == { q[i] : i \in 1..Len(q) }

\* C1: when handle_connection has returned or raised, an upstream connection
\* that was opened has had close() invoked on it exactly once.
C1_ClosedExactlyOnce ==
    (pc = "done" /\ connState # "unopened") => closeCalls = 1

\* C2: handle_connection never ends by raising.
C2_NeverRaises == outcome # "raised"

\* C3: a connection that failed at agent resolution, authentication or
\* upstream connect has had its error frame sent once by the time the
\* handler is done, the connected notification was not sent on it, and no
\* connection ever gets both notifications.
PreForwardingFailure == failStage \in {"resolve", "auth", "connect"}

C3_ErrorFrameOnEarlyFailure ==
    /\ (pc = "done" /\ PreForwardingFailure) =>
          /\ errorCalls = 1
          /\ connectedCalls = 0
          /\ ConnectedMsg \notin Range(clientOut)
          /\ closeCalls = 0
    /\ ~(connectedCalls > 0 /\ errorCalls > 0)
    /\ ~(ConnectedMsg \in Range(clientOut) /\ ErrorMsg \in Range(clientOut))

C3_Witness ==
    /\ pc = "done"
    /\ failStage = "connect"
    /\ clientOut = << ErrorMsg >>

\* C4: once the forwarding tasks exist, the handler has sent no error frame,
\* however the loops ended.
ForwardingStarted == c2a # "unborn"

C4_NoErrorFrameAfterForwarding ==
    ForwardingStarted => (errorCalls = 0 /\ ErrorMsg \notin Range(clientOut))

\* the client went away in the middle of forwarding and the handler finished
C4_Witness ==
    /\ pc = "done"
    /\ c2a = "done"
    /\ ~clientOpen
    /\ Len(upOut) >= 2
    /\ errorCalls = 0

\* C5: once a forwarding loop has terminated, forwarding returns with the
\* other loop cancelled, and the handler goes on to close the upstream
\* connection and finish; after forwarding has returned each loop has ended
\* or has had cancel() called on it.
LoopTerminated == pc = "waiting" /\ (c2a = "done" \/ a2c = "done")
LoopsStopped == c2a \in {"done", "cancelled"} /\ a2c \in {"done", "cancelled"}

C5_FirstLoopEndsForwarding ==
    /\ [](pc \in {"finally", "done"} /\ ForwardingStarted => LoopsStopped)
    /\ LoopTerminated ~> (pc = "done" /\ closeCalls = 1 /\ connState = "closed"
                          /\ LoopsStopped)

\* the upstream loop ended and the client loop was cancelled in its receive
C5_Witness ==
    /\ pc = "done"
    /\ a2c = "done"
    /\ c2a = "cancelled"
    /\ c2aMsg = NoMsg
    /\ closeCalls = 1

\* C6: whatever has been sent on the upstream connection starts with the
\* initial session configuration, sent once, and handle_connection holds a
\* connection only after that frame was sent.
C6_ConfigFirst ==
    /\ upOut # << >> => upOut[1] = ConfigMsg
    /\ \A i \in 2..Len(upOut) : upOut[i].src = "client"
    /\ azure_ws # None => upOut # << >>
    /\ ForwardingStarted => upOut # << >>

C6_Witness ==
    /\ Len(upOut) >= 2
    /\ upOut[1] = ConfigMsg
    /\ upOut[2].src = "client"

\* C7: proxy.connected is sent at most once; when it has been sent the
\* upstream connection was opened and configured; from the start of
\* forwarding on it has been sent exactly once; an upstream frame reaches
\* the client only behind it; a connection whose negotiation failed never
\* gets it.
C7_ConnectedOnce ==
    /\ connectedCalls <= 1
    /\ Cardinality({ i \in 1..Len(clientOut) : clientOut[i] = ConnectedMsg }) <= 1
    /\ connectedCalls = 1 => (upOut # << >> /\ connState # "unopened" /\ azure_ws # None)
    /\ pc \in {"forward", "waiting", "finally"} => connectedCalls = 1
    /\ (pc = "done" /\ azure_ws # None) => connectedCalls = 1
    /\ \A i \in 1..Len(clientOut) :
          clientOut[i].src = "upstream" => (i > 1 /\ clientOut[1] = ConnectedMsg)
    /\ failStage # "none" => connectedCalls = 0

C7_Witness ==
    /\ Len(clientOut) >= 2
    /\ clientOut[1] = ConnectedMsg
    /\ clientOut[2].src = "upstream"
    /\ connectedCalls = 1

\* C8 as stated: identification yields X exactly when the first frame is a
\* session.update carrying session.agent_id = X, and none otherwise.
CarriedAgentId(m) ==
    IF m.json = "object" /\ m.type = "session.update" /\ m.session = "dict"
       /\ m.agent_id # "absent"
    THEN m.agent_id
    ELSE None

IdentificationEnds == pc = "identify" /\ pc' = "connect"

C8_IdentifiesCarriedId ==
    [][IdentificationEnds =>
          current_agent_id' = IF clientIn # << >>
                              THEN CarriedAgentId(Head(clientIn).body)
                              ELSE None]_vars

\* C8: identification yields X exactly when the first frame arrives within
\* timeout_seconds, is a session.update object and carries a non-empty
\* session.agent_id = X; in every other case, an empty agent_id included, it
\* yields None; it gives up on an absent frame only at timeout_seconds or
\* when the client is gone, and the handler does not raise.
NonEmptyAgentId(m) ==
    IF CarriedAgentId(m) = "" THEN None ELSE CarriedAgentId(m)

C8_IdentifiesNonEmptyId ==
    [][IdentificationEnds =>
          /\ elapsed <= timeout_seconds
          /\ outcome' = "running"
          /\ IF clientIn # << >>
             THEN /\ current_agent_id' = NonEmptyAgentId(Head(clientIn).body)
                  /\ idFrame' = Head(clientIn).id
             ELSE /\ current_agent_id' = None
                  /\ idFrame' = 0
                  /\ (elapsed = timeout_seconds \/ ~clientOpen)]_vars

C8_Witness ==
    /\ pc = "connect"
    /\ idFrame = 1
    /\ current_agent_id = "Y"

\* C9: the frame taken by the identification step (and a frame taken by the
\* receive the timeout left behind) is never sent upstream nor held by the
\* client-to-upstream loop; when identification took a frame, it is the
\* client's first and the first client frame sent upstream is the second.
ForwardedIds == { upOut[i].id : i \in { j \in 1..Len(upOut) : upOut[j].src = "client" } }

C10_PredefinedSkipsIdentification ==
    config.agent_id # None =>
       /\ idRead = "none"
       /\ idFrame = 0
       /\ dropped = {}
       /\ pc # "identify"
       /\ pc # "start" =>
             /\ current_agent_id = config.agent_id
             /\ registryCalls # << >>
             /\ registryCalls[1] = << "create_or_get_agent", "predefined", "dummy_scenario" >>
       /\ ~ForwardingStarted => Len(clientIn) = clientSentN
       /\ Len(upOut) >= 2 => upOut[2].id = 1

C10_Witness ==
    /\ config.agent_id = "P"
    /\ Len(upOut) >= 2
    /\ upOut[2].id = 1
    /\ Len(registryCalls) = 2

\* C11: the token is asked for under the primary scope first and under the
\* fallback scope only after the primary call failed; a call that gave a
\* token is the last one and the connect goes ahead with that token; when
\* both calls failed the connection fails at authentication and
\* websockets.connect is never called.
C11_TokenScopeFallback ==
    /\ tokenCalls \in
          { << >>,
            << TokenCall(PrimaryScope, "token") >>,
            << TokenCall(PrimaryScope, "error"), TokenCall(FallbackScope, "token") >>,
            << TokenCall(PrimaryScope, "error"), TokenCall(FallbackScope, "error") >> }
    /\ tokenCalls # << >> =>
          LET last == tokenCalls[Len(tokenCalls)] IN
          IF last[2] = "token"
          THEN /\ failStage # "auth"
               /\ pc = "open" \/ connectCalls = 1
               /\ pc = "open" => headers = "bearer" /\ token = last[1]
          ELSE /\ failStage = "auth"
               /\ pc \in {"connect_failed", "done"}
               /\ connectCalls = 0
               /\ connState = "unopened"

C11_Witness ==
    /\ tokenCalls = << TokenCall(PrimaryScope, "error"),
                       TokenCall(FallbackScope, "token") >>
    /\ token = FallbackScope
    /\ connectCalls = 1
    /\ connState = "open"

\* C12: every call of websockets.connect is made with one credential in
\* the headers, the bearer token exactly when the resolved agent is remote
\* and the configured key otherwise; without a configured key a connect is
\* attempted only on the token path.
CredentialAtConnect ==
    /\ headers \in {"bearer", "api-key"}
    /\ headers = "bearer" <=> agent_config = "remote"
    /\ headers = "bearer" => token \in {PrimaryScope, FallbackScope}
    /\ headers = "api-key" => config.azure_openai_api_key /\ token = None

C12_OneCredentialPerConnect ==
    /\ [][connectCalls' # connectCalls => CredentialAtConnect]_vars
    /\ []((~config.azure_openai_api_key /\ connectCalls > 0)
            => (tokenCalls # << >> /\ tokenCalls[Len(tokenCalls)][2] = "token"))

C12_Witness ==
    /\ pc = "configure"
    /\ connectCalls = 1
    /\ headers = "api-key"
    /\ agent_config = "local"

\* C20: websockets.connect is called at most once per client connection
\* and exactly once on a connection that got as far as forwarding, every
\* opened connection comes from that call, and get_agent is called at most
\* once.
ResolveCalls == { i \in 1..Len(registryCalls) : registryCalls[i][1] = "get_agent" }

C20_OneUpstreamOneResolve ==
    /\ connectCalls <= 1
    /\ connState # "unopened" => connectCalls = 1
    /\ (pc \in {"notify", "forward", "waiting", "finally"} \/ ForwardingStarted)
          => (connectCalls = 1 /\ connState # "unopened")
    /\ Cardinality(ResolveCalls) <= 1

C20_Witness ==
    /\ ForwardingStarted
    /\ connectCalls = 1
    /\ Cardinality(ResolveCalls) = 1
    /\ Len(upOut) >= 2

\* C17: the URL handed to websockets.connect has the fixed api-version and
\* a request id, and one routing variant: for a resolved remote agent
\* agent-id and agent-project-name, with connection-string exactly when a
\* project endpoint is configured; for a resolved local agent model alone,
\* the agent's or else the default deployment; with no agent resolved the
\* configured fixed agent id alone; otherwise the default deployment alone.
RoutingOf(url) ==
    [ agent_id |-> url.agent_id,
      agent_project_name |-> url.agent_project_name,
      connection_string |-> url.connection_string,
      model |-> url.model ]

Routing(a, p, cs, m) ==
    [ agent_id |-> a, agent_project_name |-> p, connection_string |-> cs,
      model |-> m ]

C17_UrlVariantByPriority ==
    pc \in {"open", "configure"} =>
       /\ azure_url.api_version = "2025-05-01-preview"
       /\ azure_url.request_id # "absent"
       /\ RoutingOf(azure_url) =
             IF agent_config = "remote"
             THEN Routing(current_agent_id, "azure_ai_project_name",
                          IF config.project_endpoint THEN "project_endpoint"
                                                     ELSE "absent",
                          "absent")
             ELSE IF agent_config = "local"
             THEN Routing("absent", "absent", "absent",
                          IF agent_model # None THEN agent_model
                          ELSE IF config.model_deployment_name
                               THEN "model_deployment_name" ELSE "")
             ELSE IF config.agent_id # None
             THEN Routing(config.agent_id, "absent", "absent", "absent")
             ELSE Routing("absent", "absent", "absent",
                          IF config.model_deployment_name
                          THEN "model_deployment_name" ELSE "")

C17_Witness ==
    /\ pc = "configure"
    /\ connectCalls = 1
    /\ agent_config = "remote"
    /\ config.agent_id # None
    /\ ~config.project_endpoint
    /\ azure_url.agent_id = current_agent_id
    /\ azure_url.connection_string = "absent"

\* C18: the initial configuration has the fixed default fields and the
\* configured voice; it has model, instructions, temperature and
\* max_response_output_tokens, taken from the agent, exactly when an agent
\* was resolved and is not remote.
LocalAgentFields(msg) ==
    << msg.model, msg.instructions, msg.temperature,
       msg.max_response_output_tokens >>

C18_InitialConfigFields ==
    pc = "configure" =>
       /\ config_message.type = "session.update"
       /\ config_message.modalities = "text,audio"
       /\ config_message.turn_detection = "azure_semantic_vad"
       /\ config_message.input_audio_noise_reduction = "azure_deep_noise_suppression"
       /\ config_message.input_audio_echo_cancellation = "server_echo_cancellation"
       /\ config_message.avatar_character = "lisa"
       /\ config_message.avatar_style = "casual-sitting"
       /\ config_message.voice_name # "absent"
       /\ config_message.voice_type # "absent"
       /\ config.azure_voice_name => config_message.voice_name = "azure_voice_name"
       /\ config.azure_voice_type => config_message.voice_type = "azure_voice_type"
       /\ IF agent_config = "local"
          THEN LocalAgentFields(config_message) =
                  << IF agent_model # None THEN agent_model
                     ELSE IF config.model_deployment_name
                          THEN "model_deployment_name" ELSE "",
                     "agent.instructions", "agent.temperature",
                     "agent.max_tokens" >>
          ELSE LocalAgentFields(config_message) =
                  << "absent", "absent", "absent", "absent" >>

C18_Witness ==
    /\ pc = "configure"
    /\ agent_config = "local"
    /\ agent_model = "agent.model"
    /\ config_message.model = "agent.model"
    /\ config_message.instructions = "agent.instructions"

\* C19: with a required setting unset (resource name, default model
\* deployment, voice name, voice type; the project name on the token path;
\* the key on the key path) websockets.connect is never called, and a
\* handler that has returned has sent the error frame.
C19_MissingKeyAbortsBeforeConnect ==
    (\/ ~config.azure_ai_resource_name
     \/ ~config.model_deployment_name
     \/ ~config.azure_voice_name
     \/ ~config.azure_voice_type
     \/ ~config.azure_ai_project_name /\ failStage = "auth" /\ tokenCalls = << >>
     \/ ~config.azure_openai_api_key /\ tokenCalls = << >> /\ pc \notin {"start", "identify", "connect", "auth"})
    => /\ connectCalls = 0
       /\ (pc = "done" /\ outcome = "returned") => errorCalls = 1

\* the step in which _forward_azure_to_client takes the next frame
A2CTakes == a2c = "recv" /\ upIn # << >> /\ upIn' = Tail(upIn)

IsSessionUpdated(m) == m.body.json = "object" /\ m.body.type = "session.updated"

\* session content of the last session.updated frame relayed to the client,
\* "none" before the first
LastRelayedContent(out) ==
    LET S == { i \in 1..Len(out) : out[i].src = "upstream" /\ IsSessionUpdated(out[i]) }
    IN  IF S = {} THEN "none"
        ELSE out[CHOOSE i \in S : \A j \in S : j <= i].body.session

\* C13: a session.updated frame is skipped exactly when its session
\* content, whatever its key order, is that of the session.updated frame
\* before it on the connection, and is relayed otherwise.  A skipped frame
\* has the content of its predecessor, so the frame before it always has the
\* content of the last session.updated frame that was relayed; the frames
\* relayed so far are in clientOut while the loop is at its receive.
C13_DedupWindowOfOne ==
    [][(A2CTakes /\ IsSessionUpdated(Head(upIn))) =>
          IF Head(upIn).body.session = LastRelayedContent(clientOut)
          THEN a2c' = "recv" /\ a2cMsg' = NoUpMsg
          ELSE a2c' = "send" /\ a2cMsg' = Head(upIn)]_vars

\* contents A, B, A key order aside: all three relayed
C13_Witness ==
    /\ Len(clientOut) = 4
    /\ \A i \in 2..4 : IsSessionUpdated(clientOut[i]) /\ clientOut[i].id = i - 1
    /\ clientOut[2].body.session = "A"
    /\ clientOut[3].body.session = "B"
    /\ clientOut[4].body.session = "A"

\* C14: a frame taken by _forward_azure_to_client that is not a
\* session.updated message goes on to client_ws.send, whatever it is, and
\* the loop takes the next frame after sending it to a connected client.
C14_UpstreamFramesAlwaysForwarded ==
    /\ [][(A2CTakes /\ ~IsSessionUpdated(Head(upIn)))
            => (a2c' = "send" /\ a2cMsg' = Head(upIn))]_vars
    /\ [][(a2c = "send" /\ a2c' # "send" /\ clientOpen)
            => (a2c' = "recv" /\ clientOut' = Append(clientOut, a2cMsg))]_vars

\* the step in which _forward_client_to_azure takes the next frame
C2ATakes ==
    /\ c2a = "recv" /\ c2a' \in {"send", "done"}
    /\ clientIn # << >> /\ clientIn' = Tail(clientIn)

\* a session.update message whose session is an object
IsSessionUpdate(m) ==
    /\ m.body.json = "object"
    /\ m.body.type = "session.update"
    /\ m.body.session = "dict"

C16_OtherFramesForwardedUnmodified ==
    /\ [][(C2ATakes /\ ~(IsSessionUpdate(Head(clientIn))
                          /\ Head(clientIn).body.agent_id # "absent"))
            => (c2a' = "send" /\ c2aMsg' = Head(clientIn))]_vars
    /\ [][(c2a \in {"recv", "send"} /\ c2a' = "done")
            => (c2a = "recv" /\ clientIn = << >> /\ ~clientOpen)]_vars

\* C22: the receive that a timed-out identification left in the executor
\* takes no frame out of the client's buffer, and the client's frames go
\* upstream in the order they were sent.
C22_NoFrameLostAfterTimeout ==
    /\ dropped = {}
    /\ \A i, j \in 1..Len(upOut) :
          (i < j /\ upOut[i].src = "client" /\ upOut[j].src = "client")
             => upOut[i].id < upOut[j].id

\* C21: close() is not called on the upstream connection while a cancelled
\* loop, or a call it left in the executor, is still running, and once
\* forwarding has returned nothing more is sent upstream or to the client.
LoserStopped ==
    /\ c2a \in {"done", "cancelled"}
    /\ a2c \in {"done", "cancelled"}
    /\ orphanSend = NoUpMsg

C21_LoserStoppedBeforeClose ==
    /\ [][closeCalls' # closeCalls => LoserStopped]_vars
    /\ [][(pc \in {"finally", "done"})
            => (upOut' = upOut /\ clientOut' = clientOut)]_vars

====
